---------------------------- MODULE Spec2Model ----------------------------
(***************************************************************************)
(* The audio review player of BirdNET-Pibird: the AudioPlayer component    *)
(* (script block and <audio> element), the range inputs bound to its four  *)
(* filter parameters, and the page-wide store currentlyPlaying.            *)
(*                                                                         *)
(* One controller is one mounted AudioPlayer.  The browser is the          *)
(* environment: it delivers the media element's events as tasks, settles   *)
(* the promises of audio.play() and audioContext.resume(), and pauses a    *)
(* media element that is removed from the document.                        *)
(*                                                                         *)
(* Units: frequencies in Hz; gain and volume in hundredths (the sliders'   *)
(* step is 0.01), so gain = 1 is 100.                                      *)
(***************************************************************************)
EXTENDS Integers, Sequences, FiniteSets

\* ------------------------------------------------------------------ bounds
NumControllers == 2
MaxEvents == 2
MediaLen == 2
MaxTeardowns == 2
\* Dates that have detections, besides the option "All dates".
NumDates == 2
\* Calls of detections.list() the page makes, the one of onMount included.
MaxRequests == 4
\* Pages of limit rows the server holds for a date filter.
MaxPages == 2

Controllers == 1..NumControllers

\* An optional value: the store holds string | null.
None == << >>
Some(s) == << s >>

\* Every player of the page is given the url of its own recording.
DistinctSrc == [c \in Controllers |-> c]

\* A page that shows the same recording in more than one card.
SharedSrc == [c \in Controllers |-> 1]

VARIABLES
    src,              \* export let src, per controller
    alive,            \* the component is mounted (not yet destroyed)
    teardowns,        \* how many times the onDestroy callback has run
    currentlyPlaying, \* the store: None or Some(source)
    isPlaying,        \* let isPlaying
    currentTime,      \* let currentTime
    duration,         \* let duration
    lowPassHz, highPassHz, gain, volume,
    audioContext,     \* "null" | "suspended" | "running" | "closed"
    sourceNode, highPassNode, lowPassNode, gainNode, volumeNode,
    elem,             \* the element: "paused" | "waiting" | "playing" | "ended"
    elemReady,        \* the element has its metadata
    elemPos,          \* audio.currentTime
    elemError,        \* audio.error: the source could not be loaded
    evq,              \* play / pause / ended events queued for the handlers
    awaitResume,      \* a togglePlay is suspended at await audioContext.resume()
    awaitPlay,        \* fates of the promises of audio.play() being awaited
    hostAudio,        \* window.AudioContext exists
    buildFault,       \* "none"; "context": new AudioCtx() throws;
                      \* "source": createMediaElementSource() throws
    builds,           \* how many times a graph was constructed
    request,          \* the last slider request: None or <<player, kind, raw>>
    logged,           \* the catch block of togglePlay has called console.error
    uncaught,         \* an exception escaped a handler
    \* the detections page
    allDetections,    \* let allDetections: rows << request's date, row number >>
    loading,          \* let loading
    selectedDate,     \* let selectedDate (AllDates is the empty string)
    availableDates,   \* let availableDates
    offset,           \* let offset
    total,            \* let total
    hasMore,          \* let hasMore
    pending,          \* calls of detections.list() not yet settled
    datesPending,     \* the call of detections.dates() is not yet settled
    issued,           \* how many calls of detections.list() were made
    toasts            \* the error toast was shown

paramVars == << lowPassHz, highPassHz, gain, volume >>
nodeVars == << sourceNode, highPassNode, lowPassNode, gainNode, volumeNode >>
graphVars == << audioContext, nodeVars, builds >>
timeVars == << currentTime, duration, elemReady, elemPos, elemError >>
playerVars == << src, alive, teardowns, currentlyPlaying, isPlaying,
                paramVars, graphVars, timeVars, elem, evq, awaitResume,
                awaitPlay, hostAudio, buildFault, request, logged, uncaught >>
pageVars == << allDetections, loading, selectedDate, availableDates, offset,
              total, hasMore, pending, datesPending, issued, toasts >>
vars == << playerVars, pageVars >>

\* ------------------------------------------------------- filter parameters
DefaultLowPassHz == 20000
DefaultHighPassHz == 20
DefaultGain == 100
DefaultVolume == 100

ParamKinds == {"volume", "gain", "highPassHz", "lowPassHz"}

\* min, max and step of the four <input type="range"> controls.
RangeMin(kind) ==
    CASE kind = "volume" -> 0
      [] kind = "gain" -> 0
      [] kind = "highPassHz" -> 20
      [] kind = "lowPassHz" -> 500

RangeMax(kind) ==
    CASE kind = "volume" -> 100
      [] kind = "gain" -> 300
      [] kind = "highPassHz" -> 5000
      [] kind = "lowPassHz" -> 20000

RangeStep(kind) ==
    CASE kind = "volume" -> 1
      [] kind = "gain" -> 1
      [] kind = "highPassHz" -> 10
      [] kind = "lowPassHz" -> 50

\* What the user (or a script driving the control) asks a slider for.
RawValues(kind) ==
    CASE kind = "volume" -> {-5, 40, 250}
      [] kind = "gain" -> {-50, 250, 1000}
      [] kind = "highPassHz" -> {0, 1004, 9000}
      [] kind = "lowPassHz" -> {100, 8020, 25000}

\* A binding that stores what was asked for, as a text input would.
RangeInputUnclamped(kind, raw) == raw

\* The value a range input holds after it is asked for raw: brought into
\* [min, max], then onto the step grid that starts at min (nearest step,
\* a tie going up).  bind:value stores that number in the variable.
RangeInput(kind, raw) ==
    LET lo == RangeMin(kind)
        hi == RangeMax(kind)
        st == RangeStep(kind)
        clamped == IF raw < lo THEN lo ELSE IF raw > hi THEN hi ELSE raw
        snapped == lo + ((clamped - lo + (st \div 2)) \div st) * st
    IN  IF snapped > hi THEN snapped - st ELSE snapped

\* ------------------------------------------------------------ signal graph
\* A node handle: null, or a node with its AudioParam value and the node
\* its output is connected to.
NoNode == [present |-> FALSE, value |-> 0, out |-> "none"]

\* A node that is created and set but never connected.
NodeUnconnected(v, o) == [present |-> TRUE, value |-> v, out |-> "none"]

Node(v, o) == [present |-> TRUE, value |-> v, out |-> o]

\* node.disconnect(): drops the node's outgoing connection.
Disconnect(n) == IF n.present THEN [n EXCEPT !.out = "none"] ELSE n

\* audioContext.close(): the context ends closed; closing a closed context
\* only rejects the returned promise, which `void` discards.
Close(ctx) == IF ctx = "null" THEN "null" ELSE "closed"

\* A stage that keeps the value it was built with.
ReactiveAtBuildOnly(n, v) == n

\* $: if (node) node.param.value = v
Reactive(n, v) == IF n.present THEN [n EXCEPT !.value = v] ELSE n

\* The build throws: new AudioCtx() (the host refuses another context),
\* before anything is assigned, or createMediaElementSource(), after
\* audioContext has been assigned.
BuildThrows(c) ==
    hostAudio /\ audioContext[c] = "null" /\ buildFault # "none"

\* What setupAudioGraph has assigned when the exception leaves it.
SetupAudioGraphThrown(c, ctxState) ==
    /\ audioContext' = IF buildFault = "source"
                       THEN [audioContext EXCEPT ![c] = ctxState]
                       ELSE audioContext
    /\ UNCHANGED << nodeVars, builds >>

\* A build that leaves every stage at the defaults of its declaration.
SetupAudioGraphDefaults(c, ctxState) ==
    IF ~hostAudio \/ audioContext[c] # "null"
    THEN UNCHANGED graphVars
    ELSE IF BuildThrows(c)
    THEN SetupAudioGraphThrown(c, ctxState)
    ELSE /\ audioContext' = [audioContext EXCEPT ![c] = ctxState]
         /\ builds' = [builds EXCEPT ![c] = @ + 1]
         /\ sourceNode' = [sourceNode EXCEPT ![c] = Node(0, "highPassNode")]
         /\ highPassNode' =
                [highPassNode EXCEPT ![c] = Node(DefaultHighPassHz, "lowPassNode")]
         /\ lowPassNode' =
                [lowPassNode EXCEPT ![c] = Node(DefaultLowPassHz, "gainNode")]
         /\ gainNode' = [gainNode EXCEPT ![c] = Node(DefaultGain, "volumeNode")]
         /\ volumeNode' =
                [volumeNode EXCEPT ![c] = Node(DefaultVolume, "destination")]

\* A build without the early return on an existing context.
SetupAudioGraphAgain(c, ctxState) ==
    IF ~hostAudio
    THEN UNCHANGED graphVars
    ELSE IF BuildThrows(c)
    THEN SetupAudioGraphThrown(c, ctxState)
    ELSE /\ audioContext' = [audioContext EXCEPT ![c] = ctxState]
         /\ builds' = [builds EXCEPT ![c] = @ + 1]
         /\ sourceNode' = [sourceNode EXCEPT ![c] = Node(0, "highPassNode")]
         /\ highPassNode' =
                [highPassNode EXCEPT ![c] = Node(highPassHz[c], "lowPassNode")]
         /\ lowPassNode' =
                [lowPassNode EXCEPT ![c] = Node(lowPassHz[c], "gainNode")]
         /\ gainNode' = [gainNode EXCEPT ![c] = Node(gain[c], "volumeNode")]
         /\ volumeNode' =
                [volumeNode EXCEPT ![c] = Node(volume[c], "destination")]

\* setupAudioGraph(): nothing without a host AudioContext or with a context
\* already made; else a new context (the host starts it suspended or running)
\* and the chain source -> high-pass -> low-pass -> gain -> volume ->
\* destination, each stage set from the stored parameter.
SetupAudioGraph(c, ctxState) ==
    IF ~hostAudio \/ audioContext[c] # "null"
    THEN UNCHANGED graphVars
    ELSE IF BuildThrows(c)
    THEN SetupAudioGraphThrown(c, ctxState)
    ELSE /\ audioContext' = [audioContext EXCEPT ![c] = ctxState]
         /\ builds' = [builds EXCEPT ![c] = @ + 1]
         /\ sourceNode' = [sourceNode EXCEPT ![c] = Node(0, "highPassNode")]
         /\ highPassNode' =
                [highPassNode EXCEPT ![c] = Node(highPassHz[c], "lowPassNode")]
         /\ lowPassNode' =
                [lowPassNode EXCEPT ![c] = Node(lowPassHz[c], "gainNode")]
         /\ gainNode' = [gainNode EXCEPT ![c] = Node(gain[c], "volumeNode")]
         /\ volumeNode' =
                [volumeNode EXCEPT ![c] = Node(volume[c], "destination")]

\* A teardown that forgets the graph.
OnDestroyLeak(c) == UNCHANGED << graphVars, uncaught >>

\* A teardown that names the target of each disconnect: disconnect(target)
\* throws when the node is not connected to it.
OnDestroyTargeted(c) ==
    /\ sourceNode' = [sourceNode EXCEPT ![c] = Disconnect(@)]
    /\ highPassNode' = [highPassNode EXCEPT ![c] = Disconnect(@)]
    /\ lowPassNode' = [lowPassNode EXCEPT ![c] = Disconnect(@)]
    /\ gainNode' = [gainNode EXCEPT ![c] = Disconnect(@)]
    /\ volumeNode' = [volumeNode EXCEPT ![c] = Disconnect(@)]
    /\ audioContext' = [audioContext EXCEPT ![c] = Close(@)]
    /\ uncaught' =
           (uncaught \/ (sourceNode[c].present /\ sourceNode[c].out = "none"))
    /\ UNCHANGED builds

\* The body of the onDestroy callback: disconnect every stage that exists,
\* close the context if there is one.  disconnect() without a target and a
\* discarded close() throw nothing, whatever state the graph is in.
OnDestroy(c) ==
    /\ sourceNode' = [sourceNode EXCEPT ![c] = Disconnect(@)]
    /\ highPassNode' = [highPassNode EXCEPT ![c] = Disconnect(@)]
    /\ lowPassNode' = [lowPassNode EXCEPT ![c] = Disconnect(@)]
    /\ gainNode' = [gainNode EXCEPT ![c] = Disconnect(@)]
    /\ volumeNode' = [volumeNode EXCEPT ![c] = Disconnect(@)]
    /\ audioContext' = [audioContext EXCEPT ![c] = Close(@)]
    /\ UNCHANGED << builds, uncaught >>

\* ------------------------------------------------------- the media element
Unpaused(e) == e \in {"waiting", "playing"}

\* audio.pause() on element x: an un-paused element becomes paused, its
\* pause event is queued and its pending play() promises are rejected.
PauseElem(e, x) == [e EXCEPT ![x] = IF Unpaused(@) THEN "paused" ELSE @]

\* An element that dispatches no pause event.
PauseEvqNone(q, e, x) == q

PauseEvq(q, e, x) ==
    IF Unpaused(e[x]) /\ alive[x] THEN [q EXCEPT ![x] = Append(@, "pause")]
    ELSE q

RejectPending(s) ==
    IF "pending" \in s THEN (s \ {"pending"}) \cup {"rejecting"} ELSE s

PausePromises(p, e, x) ==
    IF Unpaused(e[x]) THEN [p EXCEPT ![x] = RejectPending(@)] ELSE p

\* audio.play() on element x: a paused element is un-paused and its play
\* event queued (an ended one first seeks to the start); the promise
\* returned is pending until playback starts, and resolves at once on an
\* element that is already playing.  On an element whose source could not
\* be loaded, play() changes nothing and returns a rejected promise.
PlayElem(e, x) ==
    [e EXCEPT ![x] = IF Unpaused(@) \/ elemError[x] THEN @ ELSE "waiting"]

PlayEvq(q, e, x) ==
    IF ~Unpaused(e[x]) /\ ~elemError[x] /\ alive[x]
    THEN [q EXCEPT ![x] = Append(@, "play")]
    ELSE q

PlayPromises(p, e, x) ==
    [p EXCEPT ![x] = @ \cup {IF elemError[x] THEN "rejecting"
                             ELSE IF e[x] = "playing" THEN "resolving"
                             ELSE "pending"}]

\* A play() that always starts from the beginning.
PlayPosRestart(pos, e, x) == [pos EXCEPT ![x] = 0]

PlayPos(pos, e, x) ==
    IF e[x] = "ended" /\ ~elemError[x] THEN [pos EXCEPT ![x] = 0] ELSE pos

\* document.querySelector(`audio[src="..."]`): the first audio element in
\* the document whose src is the given one (none: the empty set).
QuerySelector(s) ==
    LET found == {x \in Controllers : alive[x] /\ src[x] = s}
    IN  IF found = {} THEN {}
        ELSE {CHOOSE x \in found : \A y \in found : x <= y}

\* -------------------------------------------------------- detections page
\* The value of the option "All dates": the empty string.
AllDates == 0
Dates == 1..NumDates

limit == 20

\* The server: how many detections match a date filter.
ServerTotal(d) == MaxPages * limit - d

\* The response of detections.list({limit, offset, date}): the rows
\* off + 1 .. off + limit that exist.
ListResult(d, off) ==
    LET n == IF ServerTotal(d) - off >= limit
             THEN limit
             ELSE IF ServerTotal(d) - off > 0 THEN ServerTotal(d) - off ELSE 0
    IN  [detections |-> [i \in 1..n |-> << d, off + i >>],
         total |-> ServerTotal(d)]

\* loadDetections(reset) up to its await: the call that is now in flight.
ListCall(reset, d, off) == [reset |-> reset, date |-> d, offset |-> off]

\* The page once onMount has run: loadDates() and loadDetections(true) are
\* both waiting for the server.
OnMount ==
    /\ allDetections = << >>
    /\ loading = TRUE
    /\ selectedDate = AllDates
    /\ availableDates = {}
    /\ offset = 0
    /\ total = 0
    /\ hasMore = FALSE
    /\ pending = << ListCall(TRUE, AllDates, 0) >>
    /\ datesPending = TRUE
    /\ issued = 1
    /\ toasts = FALSE

\* ----------------------------------------------------------------- actions
Init ==
    /\ src = DistinctSrc
    /\ alive = [c \in Controllers |-> TRUE]
    /\ teardowns = [c \in Controllers |-> 0]
    /\ currentlyPlaying = None
    /\ isPlaying = [c \in Controllers |-> FALSE]
    /\ currentTime = [c \in Controllers |-> 0]
    /\ duration = [c \in Controllers |-> 0]
    /\ lowPassHz = [c \in Controllers |-> DefaultLowPassHz]
    /\ highPassHz = [c \in Controllers |-> DefaultHighPassHz]
    /\ gain = [c \in Controllers |-> DefaultGain]
    /\ volume = [c \in Controllers |-> DefaultVolume]
    /\ audioContext = [c \in Controllers |-> "null"]
    /\ sourceNode = [c \in Controllers |-> NoNode]
    /\ highPassNode = [c \in Controllers |-> NoNode]
    /\ lowPassNode = [c \in Controllers |-> NoNode]
    /\ gainNode = [c \in Controllers |-> NoNode]
    /\ volumeNode = [c \in Controllers |-> NoNode]
    /\ elem = [c \in Controllers |-> "paused"]
    /\ elemReady = [c \in Controllers |-> FALSE]
    /\ elemPos = [c \in Controllers |-> 0]
    /\ elemError = [c \in Controllers |-> FALSE]
    /\ evq = [c \in Controllers |-> << >>]
    /\ awaitResume = [c \in Controllers |-> FALSE]
    /\ awaitPlay = [c \in Controllers |-> {}]
    /\ hostAudio \in BOOLEAN
    /\ buildFault = "none"
    /\ builds = [c \in Controllers |-> 0]
    /\ request = None
    /\ logged = [c \in Controllers |-> FALSE]
    /\ uncaught = FALSE
    /\ OnMount

\* The event queues of the model are bounded.
EvqBounded == \A x \in Controllers : Len(evq'[x]) <= MaxEvents

\* A start that pauses every other player's element, whatever the store
\* holds.
StopEveryOtherAndPlay(c, played) ==
    LET e1 == [x \in Controllers |->
                  IF x # c THEN PauseElem(elem, x)[x] ELSE elem[x]]
        q1 == [x \in Controllers |->
                  IF x # c THEN PauseEvq(evq, elem, x)[x] ELSE evq[x]]
        p1 == [x \in Controllers |->
                  IF x # c THEN PausePromises(awaitPlay, elem, x)[x]
                  ELSE awaitPlay[x]]
    IN  /\ elem' = IF played THEN PlayElem(e1, c) ELSE e1
        /\ evq' = IF played THEN PlayEvq(q1, e1, c) ELSE q1
        /\ awaitPlay' = IF played THEN PlayPromises(p1, e1, c) ELSE p1
        /\ elemPos' = IF played THEN PlayPos(elemPos, e1, c) ELSE elemPos
        /\ UNCHANGED currentlyPlaying

\* togglePlay, from the comment "Stop any other playing audio" to the await
\* of audio.play(): pause the element the store names if it is another
\* source's, then call audio.play().  played is FALSE only for a destroyed
\* component whose bind:this has been reset, where audio.play() throws into
\* the catch after the other element has been paused.
StopOtherAndPlay(c, played) ==
    LET others == IF currentlyPlaying # None /\ currentlyPlaying # Some(src[c])
                  THEN QuerySelector(currentlyPlaying[1])
                  ELSE {}
        o == CHOOSE x \in others : TRUE
        e1 == IF others = {} THEN elem ELSE PauseElem(elem, o)
        q1 == IF others = {} THEN evq ELSE PauseEvq(evq, elem, o)
        p1 == IF others = {} THEN awaitPlay ELSE PausePromises(awaitPlay, elem, o)
    IN  /\ elem' = IF played THEN PlayElem(e1, c) ELSE e1
        /\ evq' = IF played THEN PlayEvq(q1, e1, c) ELSE q1
        /\ awaitPlay' = IF played THEN PlayPromises(p1, e1, c) ELSE p1
        /\ elemPos' = IF played THEN PlayPos(elemPos, e1, c) ELSE elemPos
        /\ UNCHANGED currentlyPlaying

\* catch (error) { console.error('Unable to play audio:', error) }
ConsoleError(c) == [logged EXCEPT ![c] = TRUE]

\* A togglePlay whose pause branch also releases the graph.
TogglePlayReleasing(c) ==
    /\ alive[c]
    /\ IF isPlaying[c]
       THEN /\ elem' = PauseElem(elem, c)
            /\ evq' = PauseEvq(evq, elem, c)
            /\ awaitPlay' = PausePromises(awaitPlay, elem, c)
            /\ currentlyPlaying' = None
            /\ OnDestroy(c)
            /\ UNCHANGED << awaitResume, elemPos, logged >>
       ELSE IF BuildThrows(c)
       THEN /\ \E ctxState \in {"suspended", "running"} :
                   SetupAudioGraph(c, ctxState)
            /\ logged' = ConsoleError(c)
            /\ UNCHANGED << awaitResume, elem, evq, awaitPlay, elemPos,
                            currentlyPlaying >>
       ELSE \E ctxState \in {"suspended", "running"} :
                /\ SetupAudioGraph(c, ctxState)
                /\ IF audioContext'[c] = "suspended"
                   THEN /\ awaitResume' = [awaitResume EXCEPT ![c] = TRUE]
                        /\ UNCHANGED << elem, evq, awaitPlay, elemPos,
                                        currentlyPlaying >>
                   ELSE /\ StopOtherAndPlay(c, TRUE)
                        /\ UNCHANGED awaitResume
                /\ UNCHANGED logged
    /\ EvqBounded
    /\ UNCHANGED << src, alive, teardowns, isPlaying, paramVars, currentTime,
                    duration, elemReady, elemError, hostAudio, buildFault,
                    request, uncaught,
                    pageVars >>

\* togglePlay() up to its first suspension.  With isPlaying set: pause the
\* element and clear the store.  Otherwise ensureAudioContextRunning():
\* build the graph if there is no context, and wait for resume() if the
\* context is suspended; with a running context (or none) the function
\* continues in the same turn of the event loop.  An exception thrown by
\* the build goes to the catch block, which logs it: nothing is played,
\* and what the build had assigned stays assigned.
TogglePlay(c) ==
    /\ alive[c]
    /\ IF isPlaying[c]
       THEN /\ elem' = PauseElem(elem, c)
            /\ evq' = PauseEvq(evq, elem, c)
            /\ awaitPlay' = PausePromises(awaitPlay, elem, c)
            /\ currentlyPlaying' = None
            /\ UNCHANGED << graphVars, awaitResume, elemPos, logged >>
       ELSE IF BuildThrows(c)
       THEN /\ \E ctxState \in {"suspended", "running"} :
                   SetupAudioGraph(c, ctxState)
            /\ logged' = ConsoleError(c)
            /\ UNCHANGED << awaitResume, elem, evq, awaitPlay, elemPos,
                            currentlyPlaying >>
       ELSE \E ctxState \in {"suspended", "running"} :
                /\ SetupAudioGraph(c, ctxState)
                /\ IF audioContext'[c] = "suspended"
                   THEN /\ awaitResume' = [awaitResume EXCEPT ![c] = TRUE]
                        /\ UNCHANGED << elem, evq, awaitPlay, elemPos,
                                        currentlyPlaying >>
                   ELSE /\ StopOtherAndPlay(c, TRUE)
                        /\ UNCHANGED awaitResume
                /\ UNCHANGED logged
    /\ EvqBounded
    /\ UNCHANGED << src, alive, teardowns, isPlaying, paramVars, currentTime,
                    duration, elemReady, elemError, hostAudio, buildFault,
                    request, uncaught,
                    pageVars >>

\* audioContext.resume() resolves: togglePlay continues after its first
\* await, whether or not the component still exists.
ResumeDone(c) ==
    /\ awaitResume[c]
    /\ awaitResume' = [awaitResume EXCEPT ![c] = FALSE]
    /\ audioContext' =
           [audioContext EXCEPT ![c] = IF @ = "suspended" THEN "running" ELSE @]
    /\ \E played \in (IF alive[c] THEN {TRUE} ELSE BOOLEAN) :
           /\ StopOtherAndPlay(c, played)
           /\ logged' = IF played THEN logged ELSE ConsoleError(c)
    /\ EvqBounded
    /\ UNCHANGED << src, alive, teardowns, isPlaying, paramVars, nodeVars,
                    builds, currentTime, duration, elemReady, elemError,
                    hostAudio, buildFault, request, uncaught,
                    pageVars >>

\* audioContext.resume() rejects: the catch block logs and togglePlay ends.
ResumeFailed(c) ==
    /\ awaitResume[c]
    /\ awaitResume' = [awaitResume EXCEPT ![c] = FALSE]
    /\ logged' = ConsoleError(c)
    /\ UNCHANGED << src, alive, teardowns, currentlyPlaying, isPlaying,
                    paramVars, graphVars, timeVars, elem, evq, awaitPlay,
                    hostAudio, buildFault, request, uncaught,
                    pageVars >>

\* The promise of audio.play() resolves: currentlyPlaying.set(src).
PlayResolved(c) ==
    /\ "resolving" \in awaitPlay[c]
    /\ awaitPlay' = [awaitPlay EXCEPT ![c] = @ \ {"resolving"}]
    /\ currentlyPlaying' = Some(src[c])
    /\ UNCHANGED << src, alive, teardowns, isPlaying, paramVars, graphVars,
                    timeVars, elem, evq, awaitResume, hostAudio, buildFault,
                    request, logged, uncaught,
                    pageVars >>

\* The promise of audio.play() rejects: the catch block logs.
PlayRejected(c) ==
    /\ "rejecting" \in awaitPlay[c]
    /\ awaitPlay' = [awaitPlay EXCEPT ![c] = @ \ {"rejecting"}]
    /\ logged' = ConsoleError(c)
    /\ UNCHANGED << src, alive, teardowns, currentlyPlaying, isPlaying,
                    paramVars, graphVars, timeVars, elem, evq, awaitResume,
                    hostAudio, buildFault, request, uncaught,
                    pageVars >>

\* The element gets its metadata: on:loadedmetadata={handleLoadedMetadata}
\* runs while the component exists.
HandleLoadedMetadata(c) ==
    /\ ~elemReady[c]
    /\ ~elemError[c]
    /\ elemReady' = [elemReady EXCEPT ![c] = TRUE]
    /\ duration' = IF alive[c] THEN [duration EXCEPT ![c] = MediaLen]
                   ELSE duration
    /\ UNCHANGED << src, alive, teardowns, currentlyPlaying, isPlaying,
                    paramVars, graphVars, currentTime, elemPos, elemError,
                    elem, evq, awaitResume, awaitPlay, hostAudio, buildFault,
                    request, logged, uncaught,
                    pageVars >>

\* The source cannot be fetched or is not playable: the element's error is
\* set and the pending promises of play() are rejected.  The element's
\* paused attribute is left as it is, and the component has no on:error.
LoadFailed(c) ==
    /\ ~elemReady[c]
    /\ ~elemError[c]
    /\ elemError' = [elemError EXCEPT ![c] = TRUE]
    /\ awaitPlay' = [awaitPlay EXCEPT ![c] = RejectPending(@)]
    /\ UNCHANGED << src, alive, teardowns, currentlyPlaying, isPlaying,
                    paramVars, graphVars, currentTime, duration, elemReady,
                    elemPos, elem, evq, awaitResume, hostAudio, buildFault,
                    request, logged, uncaught,
                    pageVars >>

\* An un-paused element that has data starts to play: the promises of
\* play() pending on it are taken to be resolved.
StartPlaying(c) ==
    /\ elem[c] = "waiting"
    /\ elemReady[c]
    /\ elem' = [elem EXCEPT ![c] = "playing"]
    /\ awaitPlay' = [awaitPlay EXCEPT ![c] =
                        IF "pending" \in @
                        THEN (@ \ {"pending"}) \cup {"resolving"} ELSE @]
    /\ UNCHANGED << src, alive, teardowns, currentlyPlaying, isPlaying,
                    paramVars, graphVars, timeVars, evq, awaitResume,
                    hostAudio, buildFault, request, logged, uncaught,
                    pageVars >>

\* The task that announces the start of playback and resolves the promises
\* of play() is queued on the element's task source before any timeupdate
\* or ended event of that playback, and tasks of one source run in order.
StartAnnounced(c) == "resolving" \notin awaitPlay[c]

\* Playback advances: on:timeupdate={handleTimeUpdate} copies the position
\* while the component exists.
HandleTimeUpdate(c) ==
    /\ elem[c] = "playing"
    /\ StartAnnounced(c)
    /\ elemPos[c] < MediaLen
    /\ elemPos' = [elemPos EXCEPT ![c] = @ + 1]
    /\ currentTime' = IF alive[c] THEN [currentTime EXCEPT ![c] = elemPos'[c]]
                      ELSE currentTime
    /\ UNCHANGED << src, alive, teardowns, currentlyPlaying, isPlaying,
                    paramVars, graphVars, duration, elemReady, elemError,
                    elem, evq, awaitResume, awaitPlay, hostAudio, buildFault,
                    request, logged, uncaught,
                    pageVars >>

\* Playback reaches the end of the source: the element pauses itself and
\* one task fires its pause and ended events.
EndOfStream(c) ==
    /\ elem[c] = "playing"
    /\ StartAnnounced(c)
    /\ elemPos[c] = MediaLen
    /\ elem' = [elem EXCEPT ![c] = "ended"]
    /\ evq' = IF alive[c] THEN [evq EXCEPT ![c] = Append(@, "ended")] ELSE evq
    /\ EvqBounded
    /\ UNCHANGED << src, alive, teardowns, currentlyPlaying, isPlaying,
                    paramVars, graphVars, timeVars, awaitResume, awaitPlay,
                    hostAudio, buildFault, request, logged, uncaught,
                    pageVars >>

\* An ended handler that leaves the store alone.
DeliverEventKeepSlot(c) ==
    /\ alive[c]
    /\ evq[c] # << >>
    /\ evq' = [evq EXCEPT ![c] = Tail(@)]
    /\ isPlaying' = [isPlaying EXCEPT ![c] = (Head(evq[c]) = "play")]
    /\ currentTime' = IF Head(evq[c]) = "play" THEN currentTime
                      ELSE [currentTime EXCEPT ![c] = elemPos[c]]
    /\ UNCHANGED << src, alive, teardowns, currentlyPlaying, paramVars,
                    graphVars, duration, elemReady, elemPos, elemError, elem,
                    awaitResume, awaitPlay, hostAudio, buildFault, request,
                    logged, uncaught,
                    pageVars >>

\* The next queued event of the element reaches its handler:
\* handlePlay, handlePause, or handlePause then handleEnded.
DeliverEvent(c) ==
    /\ alive[c]
    /\ evq[c] # << >>
    /\ evq' = [evq EXCEPT ![c] = Tail(@)]
    /\ isPlaying' = [isPlaying EXCEPT ![c] = (Head(evq[c]) = "play")]
    /\ currentlyPlaying' =
           IF Head(evq[c]) = "ended" THEN None ELSE currentlyPlaying
    /\ currentTime' = IF Head(evq[c]) = "play" THEN currentTime
                      ELSE [currentTime EXCEPT ![c] = elemPos[c]]
    /\ UNCHANGED << src, alive, teardowns, paramVars, graphVars, duration,
                    elemReady, elemPos, elemError, elem, awaitResume,
                    awaitPlay, hostAudio, buildFault, request, logged, uncaught,
                    pageVars >>

\* The component is destroyed: onDestroy runs, the listeners are disposed
\* and the element leaves the document, which pauses it.
Destroy(c) ==
    /\ alive[c]
    /\ OnDestroy(c)
    /\ alive' = [alive EXCEPT ![c] = FALSE]
    /\ teardowns' = [teardowns EXCEPT ![c] = 1]
    /\ evq' = [evq EXCEPT ![c] = << >>]
    /\ elem' = PauseElem(elem, c)
    /\ awaitPlay' = PausePromises(awaitPlay, elem, c)
    /\ UNCHANGED << src, currentlyPlaying, isPlaying, paramVars, timeVars,
                    awaitResume, hostAudio, buildFault, request, logged,
                    pageVars >>

\* The teardown run once more on a destroyed component.
TeardownAgain(c) ==
    /\ ~alive[c]
    /\ teardowns[c] < MaxTeardowns
    /\ OnDestroy(c)
    /\ teardowns' = [teardowns EXCEPT ![c] = @ + 1]
    /\ UNCHANGED << src, alive, currentlyPlaying, isPlaying, paramVars,
                    timeVars, elem, evq, awaitResume, awaitPlay, hostAudio,
                    buildFault, request, logged,
                    pageVars >>

\* A slider handler that rebuilds the parameter set from the defaults.
SetParamResetting(c, kind, raw) ==
    LET v == RangeInput(kind, raw)
        pick(k, d) == IF kind = k THEN v ELSE d
    IN  /\ alive[c]
        /\ volume' = [volume EXCEPT ![c] = pick("volume", DefaultVolume)]
        /\ gain' = [gain EXCEPT ![c] = pick("gain", DefaultGain)]
        /\ highPassHz' =
               [highPassHz EXCEPT ![c] = pick("highPassHz", DefaultHighPassHz)]
        /\ lowPassHz' =
               [lowPassHz EXCEPT ![c] = pick("lowPassHz", DefaultLowPassHz)]
        /\ volumeNode' = [volumeNode EXCEPT ![c] = Reactive(@, volume'[c])]
        /\ gainNode' = [gainNode EXCEPT ![c] = Reactive(@, gain'[c])]
        /\ highPassNode' = [highPassNode EXCEPT ![c] = Reactive(@, highPassHz'[c])]
        /\ lowPassNode' = [lowPassNode EXCEPT ![c] = Reactive(@, lowPassHz'[c])]
        /\ request' = << c, kind, raw >>
        /\ UNCHANGED << src, alive, teardowns, currentlyPlaying, isPlaying,
                        audioContext, sourceNode, builds, timeVars, elem,
                        evq, awaitResume, awaitPlay, hostAudio, buildFault,
                        logged, uncaught,
                        pageVars >>

\* A slider is moved: bind:value stores the input's value, and the reactive
\* statement of that parameter writes it to its stage if the stage exists.
SetParam(c, kind, raw) ==
    LET v == RangeInput(kind, raw)
    IN  /\ alive[c]
        /\ CASE kind = "volume" ->
                  /\ volume' = [volume EXCEPT ![c] = v]
                  /\ volumeNode' = [volumeNode EXCEPT ![c] = Reactive(@, v)]
                  /\ UNCHANGED << gain, highPassHz, lowPassHz, gainNode,
                                  highPassNode, lowPassNode >>
             [] kind = "gain" ->
                  /\ gain' = [gain EXCEPT ![c] = v]
                  /\ gainNode' = [gainNode EXCEPT ![c] = Reactive(@, v)]
                  /\ UNCHANGED << volume, highPassHz, lowPassHz, volumeNode,
                                  highPassNode, lowPassNode >>
             [] kind = "highPassHz" ->
                  /\ highPassHz' = [highPassHz EXCEPT ![c] = v]
                  /\ highPassNode' = [highPassNode EXCEPT ![c] = Reactive(@, v)]
                  /\ UNCHANGED << volume, gain, lowPassHz, volumeNode,
                                  gainNode, lowPassNode >>
             [] kind = "lowPassHz" ->
                  /\ lowPassHz' = [lowPassHz EXCEPT ![c] = v]
                  /\ lowPassNode' = [lowPassNode EXCEPT ![c] = Reactive(@, v)]
                  /\ UNCHANGED << volume, gain, highPassHz, volumeNode,
                                  gainNode, highPassNode >>
        /\ request' = << c, kind, raw >>
        /\ UNCHANGED << src, alive, teardowns, currentlyPlaying, isPlaying,
                        audioContext, sourceNode, builds, timeVars, elem,
                        evq, awaitResume, awaitPlay, hostAudio, buildFault,
                        logged, uncaught,
                        pageVars >>

\* Where on the progress bar a click lands, in units of 1/MediaLen of the
\* bar's width: inside the bar, or just outside it (a click synthesised
\* from the keyboard carries clientX = 0).
SeekOffsets == (0 - 1)..(MediaLen + 1)

\* An assignment that stores the number as it is.
SetCurrentTimeRaw(c, t) == t

\* The assignment audio.currentTime = t: the element brings t into its
\* seekable range, which is [0, duration] once it has metadata and the
\* single point 0 before.
SetCurrentTime(c, t) ==
    LET end == IF elemReady[c] THEN MediaLen ELSE 0
    IN  IF t < 0 THEN 0 ELSE IF t > end THEN end ELSE t

\* seek(e): percent = (clientX - rect.left) / rect.width is x / MediaLen,
\* and percent * duration is written to audio.currentTime.  The seek moves
\* an ended element off its end, and its timeupdate event runs
\* handleTimeUpdate.
Seek(c, x) ==
    LET t == (x * duration[c]) \div MediaLen
    IN  /\ alive[c]
        /\ elemPos' = [elemPos EXCEPT ![c] = SetCurrentTime(c, t)]
        /\ currentTime' = [currentTime EXCEPT ![c] = elemPos'[c]]
        /\ elem' = [elem EXCEPT ![c] =
                        IF @ = "ended" /\ elemPos'[c] < MediaLen
                        THEN "paused" ELSE @]
        /\ request' = << c, "seek", x >>
        /\ UNCHANGED << src, alive, teardowns, currentlyPlaying, isPlaying,
                        paramVars, graphVars, duration, elemReady, elemError,
                        evq, awaitResume, awaitPlay, hostAudio, buildFault,
                        logged, uncaught,
                        pageVars >>

\* loadDates(): the dates arrive, or the call fails and is only logged.
LoadDates(ok) ==
    /\ datesPending
    /\ datesPending' = FALSE
    /\ availableDates' = IF ok THEN Dates ELSE availableDates
    /\ UNCHANGED << allDetections, loading, selectedDate, offset, total,
                    hasMore, pending, issued, toasts, playerVars >>

\* The date select changes to another option: bind:value sets selectedDate,
\* then on:change runs handleDateChange, that is loadDetections(true) up to
\* its await.
HandleDateChange(d) ==
    /\ d \in availableDates \cup {AllDates}
    /\ d # selectedDate
    /\ issued < MaxRequests
    /\ selectedDate' = d
    /\ offset' = 0
    /\ allDetections' = << >>
    /\ loading' = TRUE
    /\ pending' = Append(pending, ListCall(TRUE, d, 0))
    /\ issued' = issued + 1
    /\ UNCHANGED << availableDates, total, hasMore, datesPending, toasts,
                    playerVars >>

\* A click on "Load more": the button is rendered with the grid when
\* hasMore holds (the search box is empty), and is disabled while loading.
LoadMore ==
    /\ allDetections # << >>
    /\ hasMore
    /\ ~loading
    /\ issued < MaxRequests
    /\ offset' = offset + limit
    /\ loading' = TRUE
    /\ pending' = Append(pending, ListCall(FALSE, selectedDate, offset + limit))
    /\ issued' = issued + 1
    /\ UNCHANGED << allDetections, selectedDate, availableDates, total,
                    hasMore, datesPending, toasts, playerVars >>

Without(q, i) == SubSeq(q, 1, i - 1) \o SubSeq(q, i + 1, Len(q))

\* A call of detections.list() resolves and loadDetections continues after
\* its await; the calls in flight settle in any order.
ListResolved(i) ==
    LET call == pending[i]
        result == ListResult(call.date, call.offset)
        shown == IF call.reset
                 THEN result.detections
                 ELSE allDetections \o result.detections
    IN  /\ i \in DOMAIN pending
        /\ allDetections' = shown
        /\ total' = result.total
        /\ hasMore' = (Len(shown) < result.total)
        /\ loading' = FALSE
        /\ pending' = Without(pending, i)
        /\ UNCHANGED << selectedDate, availableDates, offset, datesPending,
                        issued, toasts, playerVars >>

\* A call of detections.list() rejects: the catch block shows the toast.
ListRejected(i) ==
    /\ i \in DOMAIN pending
    /\ toasts' = TRUE
    /\ loading' = FALSE
    /\ pending' = Without(pending, i)
    /\ UNCHANGED << allDetections, selectedDate, availableDates, offset,
                    total, hasMore, datesPending, issued, playerVars >>

\* ---------------------------------------------------------- specifications
\* The page: every player, its element's events and promises, its teardown.
Next ==
    \E c \in Controllers :
        \/ TogglePlay(c)
        \/ ResumeDone(c)
        \/ ResumeFailed(c)
        \/ PlayResolved(c)
        \/ PlayRejected(c)
        \/ HandleLoadedMetadata(c)
        \/ StartPlaying(c)
        \/ HandleTimeUpdate(c)
        \/ EndOfStream(c)
        \/ DeliverEvent(c)
        \/ Destroy(c)

Spec == Init /\ [][Next]_vars

\* One player followed through its whole life, a repeated teardown
\* included; the other players of the page stay as mounted.
NextOne ==
    \/ TogglePlay(1)
    \/ ResumeDone(1)
    \/ ResumeFailed(1)
    \/ PlayResolved(1)
    \/ PlayRejected(1)
    \/ HandleLoadedMetadata(1)
    \/ StartPlaying(1)
    \/ HandleTimeUpdate(1)
    \/ EndOfStream(1)
    \/ DeliverEvent(1)
    \/ Destroy(1)
    \/ TeardownAgain(1)

SpecOne == Init /\ [][NextOne]_vars

\* One player and its four sliders, moved before and after the graph is
\* built, while it starts, plays and pauses.
NextSliders ==
    \/ \E kind \in ParamKinds : \E raw \in RawValues(kind) :
           SetParam(1, kind, raw)
    \/ TogglePlay(1)
    \/ ResumeDone(1)
    \/ ResumeFailed(1)
    \/ PlayResolved(1)
    \/ PlayRejected(1)
    \/ HandleLoadedMetadata(1)
    \/ StartPlaying(1)
    \/ DeliverEvent(1)

SpecSliders == Init /\ [][NextSliders]_vars

\* One player and its progress bar: seeks before and after the metadata
\* arrive, while it is idle, playing, paused and ended.
NextSeek ==
    \/ \E x \in SeekOffsets : Seek(1, x)
    \/ TogglePlay(1)
    \/ ResumeDone(1)
    \/ ResumeFailed(1)
    \/ PlayResolved(1)
    \/ PlayRejected(1)
    \/ HandleLoadedMetadata(1)
    \/ StartPlaying(1)
    \/ HandleTimeUpdate(1)
    \/ EndOfStream(1)
    \/ DeliverEvent(1)

SpecSeek == Init /\ [][NextSeek]_vars

\* Two players of the page that start and pause next to each other, the
\* first of them followed to the end of its source; the other players of
\* the page stay as mounted.
Pair == {1, 2}

NextPair ==
    \/ \E c \in Pair :
           \/ TogglePlay(c)
           \/ ResumeDone(c)
           \/ ResumeFailed(c)
           \/ PlayResolved(c)
           \/ PlayRejected(c)
           \/ HandleLoadedMetadata(c)
           \/ StartPlaying(c)
           \/ DeliverEvent(c)
    \/ HandleTimeUpdate(1)
    \/ EndOfStream(1)

SpecPair == Init /\ [][NextPair]_vars

\* The two players on a page whose cards show the same recording.
InitShared ==
    /\ src = SharedSrc
    /\ alive = [c \in Controllers |-> TRUE]
    /\ teardowns = [c \in Controllers |-> 0]
    /\ currentlyPlaying = None
    /\ isPlaying = [c \in Controllers |-> FALSE]
    /\ currentTime = [c \in Controllers |-> 0]
    /\ duration = [c \in Controllers |-> 0]
    /\ lowPassHz = [c \in Controllers |-> DefaultLowPassHz]
    /\ highPassHz = [c \in Controllers |-> DefaultHighPassHz]
    /\ gain = [c \in Controllers |-> DefaultGain]
    /\ volume = [c \in Controllers |-> DefaultVolume]
    /\ audioContext = [c \in Controllers |-> "null"]
    /\ sourceNode = [c \in Controllers |-> NoNode]
    /\ highPassNode = [c \in Controllers |-> NoNode]
    /\ lowPassNode = [c \in Controllers |-> NoNode]
    /\ gainNode = [c \in Controllers |-> NoNode]
    /\ volumeNode = [c \in Controllers |-> NoNode]
    /\ elem = [c \in Controllers |-> "paused"]
    /\ elemReady = [c \in Controllers |-> FALSE]
    /\ elemPos = [c \in Controllers |-> 0]
    /\ elemError = [c \in Controllers |-> FALSE]
    /\ evq = [c \in Controllers |-> << >>]
    /\ awaitResume = [c \in Controllers |-> FALSE]
    /\ awaitPlay = [c \in Controllers |-> {}]
    /\ hostAudio \in BOOLEAN
    /\ buildFault = "none"
    /\ builds = [c \in Controllers |-> 0]
    /\ request = None
    /\ logged = [c \in Controllers |-> FALSE]
    /\ uncaught = FALSE
    /\ OnMount

SpecShared == InitShared /\ [][NextPair]_vars

\* One player under every kind of operation: play and pause (overlapping
\* calls included), seeks, changes of one of its parameters, and its
\* destruction.
NextOps ==
    \/ NextSeek
    \/ \E raw \in RawValues("gain") : SetParam(1, "gain", raw)
    \/ Destroy(1)

SpecOps == Init /\ [][NextOps]_vars

\* A page on a host that may refuse an AudioContext, with sources that may
\* fail to load.
InitFaults ==
    /\ src = DistinctSrc
    /\ alive = [c \in Controllers |-> TRUE]
    /\ teardowns = [c \in Controllers |-> 0]
    /\ currentlyPlaying = None
    /\ isPlaying = [c \in Controllers |-> FALSE]
    /\ currentTime = [c \in Controllers |-> 0]
    /\ duration = [c \in Controllers |-> 0]
    /\ lowPassHz = [c \in Controllers |-> DefaultLowPassHz]
    /\ highPassHz = [c \in Controllers |-> DefaultHighPassHz]
    /\ gain = [c \in Controllers |-> DefaultGain]
    /\ volume = [c \in Controllers |-> DefaultVolume]
    /\ audioContext = [c \in Controllers |-> "null"]
    /\ sourceNode = [c \in Controllers |-> NoNode]
    /\ highPassNode = [c \in Controllers |-> NoNode]
    /\ lowPassNode = [c \in Controllers |-> NoNode]
    /\ gainNode = [c \in Controllers |-> NoNode]
    /\ volumeNode = [c \in Controllers |-> NoNode]
    /\ elem = [c \in Controllers |-> "paused"]
    /\ elemReady = [c \in Controllers |-> FALSE]
    /\ elemPos = [c \in Controllers |-> 0]
    /\ elemError = [c \in Controllers |-> FALSE]
    /\ evq = [c \in Controllers |-> << >>]
    /\ awaitResume = [c \in Controllers |-> FALSE]
    /\ awaitPlay = [c \in Controllers |-> {}]
    /\ hostAudio \in BOOLEAN
    /\ buildFault \in {"none", "context", "source"}
    /\ builds = [c \in Controllers |-> 0]
    /\ request = None
    /\ logged = [c \in Controllers |-> FALSE]
    /\ uncaught = FALSE
    /\ OnMount

NextFaults ==
    \E c \in Controllers :
        \/ TogglePlay(c)
        \/ ResumeDone(c)
        \/ ResumeFailed(c)
        \/ PlayResolved(c)
        \/ PlayRejected(c)
        \/ HandleLoadedMetadata(c)
        \/ LoadFailed(c)
        \/ StartPlaying(c)
        \/ DeliverEvent(c)

SpecFaults == InitFaults /\ [][NextFaults]_vars

\* The detections page alone: its list, the date select and "Load more".
NextPage ==
    \/ \E ok \in BOOLEAN : LoadDates(ok)
    \/ \E d \in Dates \cup {AllDates} : HandleDateChange(d)
    \/ LoadMore
    \/ \E i \in 1..MaxRequests : ListResolved(i)
    \/ \E i \in 1..MaxRequests : ListRejected(i)

SpecPage == Init /\ [][NextPage]_vars

\* ------------------------------------------------------------------ claims
\* A controller is Playing while its element is un-paused; it produces
\* audio when the playing element is heard: directly if it was never routed
\* into a graph, else through a connected chain in a running context.
Playing(c) == Unpaused(elem[c])

ChainConnected(c) ==
    /\ sourceNode[c].out = "highPassNode"
    /\ highPassNode[c].out = "lowPassNode"
    /\ lowPassNode[c].out = "gainNode"
    /\ gainNode[c].out = "volumeNode"
    /\ volumeNode[c].out = "destination"

Audible(c) ==
    /\ elem[c] = "playing"
    /\ \/ ~sourceNode[c].present
       \/ ChainConnected(c) /\ audioContext[c] = "running"

\* C1 (Exclusivity): in every reachable state at most one controller is
\* Playing, i.e. at most one audio element is un-paused.
C1_Exclusivity == Cardinality({c \in Controllers : Playing(c)}) <= 1

\* C2 (Scenario A): whenever Y's play() un-pauses Y's element while a
\* controller X of another source is Playing, X has been paused, and its
\* pause event queued, by the time Y is Playing.
C2_ScenarioA ==
    [][\A x, y \in Controllers :
          (/\ x # y
           /\ src[x] # src[y]
           /\ alive[x]
           /\ Playing(x)
           /\ ~Playing(y)
           /\ Playing(y)')
          => (~Playing(x)' /\ evq'[x] = Append(evq[x], "pause"))]_vars

\* C3 (Stale-release guard): a release, by the pause branch of togglePlay
\* or by handleEnded, clears the slot only if the releasing controller's
\* source is the current holder; otherwise the slot keeps its holder.
C3_StaleReleaseGuard ==
    [][\A c \in Controllers :
          (\/ TogglePlay(c) /\ isPlaying[c]
           \/ DeliverEvent(c) /\ Head(evq[c]) = "ended")
          => currentlyPlaying' = IF currentlyPlaying = Some(src[c])
                                 THEN None ELSE currentlyPlaying]_vars

GraphReleased(c) ==
    /\ audioContext[c] \in {"null", "closed"}
    /\ sourceNode[c].out = "none"
    /\ highPassNode[c].out = "none"
    /\ lowPassNode[c].out = "none"
    /\ gainNode[c].out = "none"
    /\ volumeNode[c].out = "none"

\* C4 (destroy releases everything): the step that destroys a controller
\* leaves it not Playing, its graph released, and the slot not naming its
\* source.
C4_DestroyReleases ==
    [][\A c \in Controllers :
          (alive[c] /\ ~alive'[c])
          => (/\ ~Playing(c)'
              /\ GraphReleased(c)'
              /\ currentlyPlaying' # Some(src[c]))]_vars

\* C5 (destroy always wins): no step taken after a controller's destroy
\* makes that controller Playing or sets the slot to its source.
C5_DestroyWins ==
    [][\A c \in Controllers :
          ~alive[c]
          => (/\ Playing(c)' => Playing(c)
              /\ currentlyPlaying' = Some(src[c])
                     => currentlyPlaying = Some(src[c]))]_vars

\* C6 (Scenario C): a controller destroyed before its metadataLoaded event
\* (its duration was never set) produces no audio afterwards, whatever
\* loads or resolves later, and handleTimeUpdate never runs for it (its
\* currentTime stays at the start).
C6_ScenarioC ==
    \A c \in Controllers :
        (~alive[c] /\ duration[c] = 0) => (~Audible(c) /\ currentTime[c] = 0)

\* C6 witness: destroyed before metadataLoaded, and the load has resolved.
C6_Witness ==
    \E c \in Controllers : ~alive[c] /\ duration[c] = 0 /\ elemReady[c]

C8_ParameterIndependence ==
    [][\A c \in Controllers :
          LET keptV == volume'[c] = volume[c] /\ volumeNode'[c] = volumeNode[c]
              keptG == gain'[c] = gain[c] /\ gainNode'[c] = gainNode[c]
              keptH == /\ highPassHz'[c] = highPassHz[c]
                       /\ highPassNode'[c] = highPassNode[c]
              keptL == /\ lowPassHz'[c] = lowPassHz[c]
                       /\ lowPassNode'[c] = lowPassNode[c]
          IN  /\ gain'[c] # gain[c] => (keptV /\ keptH /\ keptL)
              /\ volume'[c] # volume[c] => (keptG /\ keptH /\ keptL)
              /\ highPassHz'[c] # highPassHz[c] => (keptV /\ keptG /\ keptL)
              /\ lowPassHz'[c] # lowPassHz[c] => (keptV /\ keptG /\ keptH)]_vars

\* C8 witness: gain was the last parameter set, on a built graph, while the
\* other three hold values the user had chosen.
C8_Witness ==
    \E c \in Controllers :
        /\ request # None
        /\ request[1] = c
        /\ request[2] = "gain"
        /\ gain[c] # DefaultGain
        /\ gainNode[c].present
        /\ volume[c] # DefaultVolume
        /\ highPassHz[c] # DefaultHighPassHz
        /\ lowPassHz[c] # DefaultLowPassHz

Stored(kind, c) ==
    CASE kind = "volume" -> volume[c]
      [] kind = "gain" -> gain[c]
      [] kind = "highPassHz" -> highPassHz[c]
      [] kind = "lowPassHz" -> lowPassHz[c]

Stage(kind, c) ==
    CASE kind = "volume" -> volumeNode[c]
      [] kind = "gain" -> gainNode[c]
      [] kind = "highPassHz" -> highPassNode[c]
      [] kind = "lowPassHz" -> lowPassNode[c]

\* C9 (Clamping): every stored parameter and every stage value lies in the
\* parameter's range; after a request below the range the stored value and
\* the stage hold the minimum, after one above the range the maximum: the
\* request took effect, it was not refused.
C9_Clamping ==
    /\ \A c \in Controllers : \A kind \in ParamKinds :
           /\ Stored(kind, c) >= RangeMin(kind)
           /\ Stored(kind, c) <= RangeMax(kind)
           /\ Stage(kind, c).present =>
                  /\ Stage(kind, c).value >= RangeMin(kind)
                  /\ Stage(kind, c).value <= RangeMax(kind)
    /\ request # None =>
           LET c == request[1]
               kind == request[2]
               raw == request[3]
           IN  /\ raw < RangeMin(kind) => Stored(kind, c) = RangeMin(kind)
               /\ raw > RangeMax(kind) => Stored(kind, c) = RangeMax(kind)
               /\ Stage(kind, c).present =>
                      Stage(kind, c).value = Stored(kind, c)

\* C9 witness: lowPassHz asked below 500 on a built graph, stored as 500.
C9_Witness ==
    /\ request # None
    /\ request[2] = "lowPassHz"
    /\ request[3] < RangeMin("lowPassHz")
    /\ lowPassNode[request[1]].present
    /\ lowPassHz[request[1]] = RangeMin("lowPassHz")

\* C10 (Pre-build parameter durability): no parameter change throws, and
\* whenever a controller has a graph its four stages carry the stored
\* parameters: the graph built by play() reflects the values set before.
C10_PreBuildDurability ==
    /\ ~uncaught
    /\ \A c \in Controllers :
           audioContext[c] # "null" =>
               \A kind \in ParamKinds :
                   /\ Stage(kind, c).present
                   /\ Stage(kind, c).value = Stored(kind, c)

\* C10 witness: a graph just built (its first resume still awaited, the
\* element never played) with all four parameters away from the defaults.
C10_Witness ==
    \E c \in Controllers :
        /\ audioContext[c] = "suspended"
        /\ awaitResume[c]
        /\ elem[c] = "paused"
        /\ evq[c] = << >>
        /\ ~isPlaying[c]
        /\ volume[c] # DefaultVolume
        /\ gain[c] # DefaultGain
        /\ highPassHz[c] # DefaultHighPassHz
        /\ lowPassHz[c] # DefaultLowPassHz

\* C11 (Scenario B, end of stream): while a controller plays, every change
\* of the position is an increase and is the value handleTimeUpdate
\* reports; the delivery of the ended event leaves isPlaying false and the
\* slot empty; and once the controller rests at Ended (no event and no
\* play() continuation of its own outstanding) it is not flagged as
\* playing, the reported position is the end of the source and the slot is
\* empty.
C11_EndOfStream ==
    [][\A c \in Controllers :
          /\ (elem[c] = "playing" /\ elem'[c] = "playing"
                  /\ elemPos'[c] # elemPos[c])
             => (/\ elemPos'[c] > elemPos[c]
                 /\ alive[c] => currentTime'[c] = elemPos'[c])
          /\ (alive'[c] /\ evq[c] # << >> /\ Head(evq[c]) = "ended"
                  /\ evq'[c] = Tail(evq[c]))
             => (~isPlaying'[c] /\ currentlyPlaying' = None)
          /\ (alive'[c] /\ elem'[c] = "ended" /\ evq'[c] = << >>
                  /\ awaitPlay'[c] = {})
             => (/\ ~isPlaying'[c]
                 /\ currentTime'[c] = MediaLen
                 /\ currentlyPlaying' = None)]_vars

\* C11 witness: a live controller at rest at the end of its source, which
\* it was seen to reach.
C11_Witness ==
    \E c \in Controllers :
        /\ alive[c]
        /\ elem[c] = "ended"
        /\ evq[c] = << >>
        /\ awaitPlay[c] = {}
        /\ ~awaitResume[c]
        /\ currentTime[c] = MediaLen
        /\ duration[c] = MediaLen

\* C12 (Playback failure): a controller whose source failed to load, once
\* its play() has run to its end and its events are delivered, is Idle:
\* its element is paused, it is not flagged as playing and the slot does
\* not name its source.
C12_FailureToIdle ==
    \A c \in Controllers :
        (/\ alive[c]
         /\ elemError[c]
         /\ awaitPlay[c] = {}
         /\ ~awaitResume[c]
         /\ evq[c] = << >>)
        => (/\ ~Playing(c)
            /\ ~isPlaying[c]
            /\ currentlyPlaying # Some(src[c]))

\* C13 (Failure locality): a play() of controller Y that is bound to fail
\* (Y's source could not be loaded) changes nothing of a sibling X that is
\* Playing and named by the slot: X's element, flag and events, and the
\* slot, are as before.
C13_FailureLocality ==
    [][\A x, y \in Controllers :
          (/\ x # y
           /\ elemError[y]
           /\ ~isPlaying[y]
           /\ Playing(x)
           /\ currentlyPlaying = Some(src[x])
           /\ TogglePlay(y) \/ ResumeDone(y))
          => (/\ elem'[x] = elem[x]
              /\ evq'[x] = evq[x]
              /\ isPlaying'[x] = isPlaying[x]
              /\ currentlyPlaying' = currentlyPlaying)]_vars

\* C14 (GraphUnavailable tolerance): on a host without an AudioContext
\* constructor, or whose constructor throws, play() on an idle controller
\* with a loadable source still un-pauses the element, which plays
\* unfiltered (it is not routed into a graph).
C14_GraphUnavailable ==
    [][\A c \in Controllers :
          (/\ ~hostAudio \/ buildFault = "context"
           /\ ~isPlaying[c]
           /\ ~Playing(c)
           /\ ~elemError[c]
           /\ TogglePlay(c))
          => (Playing(c)' /\ ~sourceNode'[c].present)]_vars

\* C15 (No reordering of pause then play): a togglePlay called right after
\* the togglePlay that paused the element, with the pause event not yet
\* delivered to handlePause, is a play: the element is un-paused again, or
\* the call waits for the context to resume.
C15_PauseThenPlay ==
    [][\A c \in Controllers :
          (/\ ~Playing(c)
           /\ evq[c] # << >>
           /\ evq[c][Len(evq[c])] = "pause"
           /\ TogglePlay(c))
          => (Playing(c)' \/ awaitResume'[c])]_vars

\* C16 (seek is accepted everywhere and clamped): a live controller can
\* seek in every state, and every seek leaves the position of the source
\* within [0, duration]: 0 after a request below 0, duration after a
\* request beyond the end.
C16_SeekClamped ==
    /\ [](\A c \in Controllers : alive[c] => ENABLED Seek(c, MediaLen + 1))
    /\ [][\A c \in Controllers : \A x \in SeekOffsets :
             Seek(c, x)
             => (/\ elemPos'[c] >= 0
                 /\ elemPos'[c] <= duration[c]
                 /\ x < 0 => elemPos'[c] = 0
                 /\ x > MediaLen => elemPos'[c] = duration[c])]_vars

\* C16 witness: a seek beyond the end made while the element plays from
\* the start, stored as the duration.
C16_Witness ==
    /\ request = << 1, "seek", MediaLen + 1 >>
    /\ elem[1] = "playing"
    /\ isPlaying[1]
    /\ duration[1] = MediaLen
    /\ elemPos[1] = MediaLen

\* C17 (Deferred seek): when the metadata arrive after a seek was made
\* with the duration unknown, the position of the source becomes the
\* position that was asked for.
C17_DeferredSeek ==
    [][\A c \in Controllers :
          (/\ duration[c] = 0
           /\ duration'[c] = MediaLen
           /\ request # None
           /\ request[1] = c
           /\ request[2] = "seek"
           /\ request[3] \in 0..MediaLen)
          => elemPos'[c] = request[3]]_vars

\* C18 (pause keeps the graph): the pause branch of togglePlay on a Playing
\* controller pauses the element and empties the slot, and leaves the
\* context, the five nodes, their connections and every parameter as they
\* were.
C18_PauseKeepsGraph ==
    [][\A c \in Controllers :
          (isPlaying[c] /\ Playing(c) /\ TogglePlay(c))
          => (/\ ~Playing(c)'
              /\ currentlyPlaying' = None
              /\ graphVars' = graphVars
              /\ paramVars' = paramVars)]_vars

\* C18 witness: a controller just paused (its pause event still queued)
\* whose graph is built, connected and running with a gain the user chose.
C18_Witness ==
    \E c \in Controllers :
        /\ isPlaying[c]
        /\ elem[c] = "paused"
        /\ evq[c] = << "pause" >>
        /\ currentlyPlaying = None
        /\ ChainConnected(c)
        /\ audioContext[c] = "running"
        /\ gain[c] # DefaultGain
        /\ gainNode[c].value = gain[c]

\* C19 (Lazy, idempotent construction): a controller has a graph exactly if
\* one build has run for it, and never more than one; a build happens only
\* in the play branch of togglePlay of a controller without a context; and
\* the play branch on a controller with a context leaves the context
\* handle, the nodes and the build count as they were.
C19_LazyIdempotentBuild ==
    /\ [](\A c \in Controllers :
             /\ builds[c] <= 1
             /\ builds[c] = 0 <=> audioContext[c] = "null"
             /\ builds[c] = 0 <=> ~sourceNode[c].present)
    /\ [][\A c \in Controllers :
             /\ builds'[c] # builds[c]
                => (TogglePlay(c) /\ ~isPlaying[c] /\ audioContext[c] = "null")
             /\ (audioContext[c] # "null" /\ ~isPlaying[c] /\ TogglePlay(c))
                => (/\ nodeVars' = nodeVars
                    /\ builds' = builds
                    /\ audioContext'[c] = audioContext[c])]_vars

\* C19 witness: a controller playing through the one graph it built, after
\* a change of gain and a seek.
C19_Witness ==
    /\ builds[1] = 1
    /\ isPlaying[1]
    /\ elem[1] = "playing"
    /\ currentlyPlaying = Some(src[1])
    /\ request = << 1, "seek", 1 >>
    /\ gain[1] # DefaultGain

\* C20 (Live parameter application): with the graph built, a change of a
\* stored parameter is in its stage in the same step, and that step keeps
\* the context, the build count, the nodes' presence and connections, the
\* element's state, the isPlaying flag and the position.
C20_LiveParameter ==
    [][\A c \in Controllers : \A kind \in ParamKinds :
          (Stage(kind, c).present /\ Stored(kind, c)' # Stored(kind, c))
          => (/\ Stage(kind, c)'.value = Stored(kind, c)'
              /\ Stage(kind, c)'.out = Stage(kind, c).out
              /\ Stage(kind, c)'.present
              /\ sourceNode' = sourceNode
              /\ audioContext' = audioContext
              /\ builds' = builds
              /\ elem' = elem
              /\ isPlaying' = isPlaying
              /\ elemPos' = elemPos
              /\ currentTime' = currentTime)]_vars

\* C20 witness: the volume was last set while the element plays through
\* its graph, and the volume stage holds the new value.
C20_Witness ==
    \E c \in Controllers :
        /\ request # None
        /\ request[1] = c
        /\ request[2] = "volume"
        /\ elem[c] = "playing"
        /\ isPlaying[c]
        /\ ChainConnected(c)
        /\ volume[c] # DefaultVolume
        /\ volumeNode[c].value = volume[c]

\* C21 (Re-acquire by the holder): a play() of the controller whose source
\* the slot names, at the call or after a wait for the context, pauses no
\* element (no pause event is queued for any controller, no un-paused
\* element stops) and leaves the slot naming the same source; and the
\* continuation of that play() writes the same source again.
C21_ReacquireNoOp ==
    [][\A c \in Controllers :
          /\ (/\ currentlyPlaying = Some(src[c])
              /\ (TogglePlay(c) /\ ~isPlaying[c]) \/ ResumeDone(c))
             => (/\ currentlyPlaying' = currentlyPlaying
                 /\ \A x \in Controllers :
                        /\ Unpaused(elem[x]) => Unpaused(elem'[x])
                        /\ evq'[x] # evq[x]
                           => (x = c /\ evq'[x] = Append(evq[x], "play")))
          /\ (currentlyPlaying = Some(src[c]) /\ PlayResolved(c))
             => currentlyPlaying' = currentlyPlaying]_vars

\* C21 witness: the holder of the slot has called play() again while its
\* element plays: the promise of that call is resolved at once and the
\* other player has not been touched.
C21_Witness ==
    /\ currentlyPlaying = Some(src[1])
    /\ elem[1] = "playing"
    /\ "resolving" \in awaitPlay[1]
    /\ evq[1] = << "play" >>
    /\ ~isPlaying[1]
    /\ elem[2] = "playing"
    /\ isPlaying[2]

\* C22 (Resume): the step that un-pauses a paused (not ended) element keeps
\* the position of the source and the reported position, the start of
\* playback keeps it too, and the continuation of play() sets the slot to
\* the controller's source.
C22_ResumeFromPosition ==
    [][\A c \in Controllers :
          /\ (elem[c] = "paused" /\ Playing(c)')
             => (elemPos'[c] = elemPos[c] /\ currentTime'[c] = currentTime[c])
          /\ (elem[c] = "waiting" /\ elem'[c] = "playing")
             => elemPos'[c] = elemPos[c]
          /\ PlayResolved(c) => currentlyPlaying' = Some(src[c])]_vars

\* C22 witness: a controller that played from a seek to the start up to
\* position 1, was paused, and has just been started again (its play event
\* still queued) at position 1.
C22_Witness ==
    /\ request = << 1, "seek", 0 >>
    /\ elem[1] = "waiting"
    /\ evq[1] = << "play" >>
    /\ ~isPlaying[1]
    /\ elemPos[1] = 1
    /\ currentTime[1] = 1

\* C23 (Responsiveness during an outstanding wait): when the user's pause
\* has paused the element of a live controller while a play() of that
\* controller is still awaited, the completion of that play() does not
\* give the slot to the controller.
C23_PauseHonoured ==
    [][\A c \in Controllers :
          (alive[c] /\ ~Playing(c) /\ PlayResolved(c))
          => currentlyPlaying' # Some(src[c])]_vars

\* C24 (Fixed topology): a graph that has been built and not released is
\* the chain source -> high-pass -> low-pass -> gain -> volume -> output,
\* each stage present with that one outgoing connection; and a step that
\* changes a connection of a stage is the build or the release of that
\* controller's graph.
C24_FixedTopology ==
    /\ [](\A c \in Controllers :
             (sourceNode[c].present /\ teardowns[c] = 0)
             => (/\ highPassNode[c].present
                 /\ lowPassNode[c].present
                 /\ gainNode[c].present
                 /\ volumeNode[c].present
                 /\ ChainConnected(c)))
    /\ [][\A c \in Controllers :
             (\/ sourceNode'[c].out # sourceNode[c].out
              \/ highPassNode'[c].out # highPassNode[c].out
              \/ lowPassNode'[c].out # lowPassNode[c].out
              \/ gainNode'[c].out # gainNode[c].out
              \/ volumeNode'[c].out # volumeNode[c].out)
             => (builds'[c] # builds[c] \/ teardowns'[c] # teardowns[c])]_vars

\* C24 witness: a controller plays through its chain after a seek and with
\* a gain the user chose after the build.
C24_Witness ==
    /\ alive[1]
    /\ ChainConnected(1)
    /\ elem[1] = "playing"
    /\ elemPos[1] = MediaLen
    /\ request = << 1, "gain", 250 >>
    /\ gainNode[1].value = gain[1]
    /\ audioContext[1] = "running"

\* No togglePlay is suspended at an await and every queued media event has
\* been delivered.
Quiescent ==
    \A c \in Controllers :
        ~awaitResume[c] /\ awaitPlay[c] = {} /\ evq[c] = << >>

\* C25 (Slot/state consistency): in every quiescent state the slot names
\* the source of a controller exactly if that controller is live and
\* Playing.
C25_SlotConsistency ==
    Quiescent =>
        \A c \in Controllers :
            currentlyPlaying = Some(src[c]) <=> (alive[c] /\ Playing(c))

\* C26 (Overlapping starts): once the togglePlay calls in flight have run
\* to their end, at most one live controller is Playing, and if one is the
\* slot names its source.
C26_OverlappingStarts ==
    Quiescent =>
        /\ Cardinality({c \in Controllers : alive[c] /\ Playing(c)}) <= 1
        /\ \A c \in Controllers :
               (alive[c] /\ Playing(c)) => currentlyPlaying = Some(src[c])

\* C27 (Same-source players): when a controller starts while another live
\* controller bound to the same src is Playing and named by the slot, the
\* other one is paused.
C27_SameSource ==
    [][\A x, y \in Controllers :
          (/\ x # y
           /\ src[x] = src[y]
           /\ alive[x]
           /\ Playing(x)
           /\ isPlaying[x]
           /\ currentlyPlaying = Some(src[x])
           /\ ~Playing(y)
           /\ Playing(y)')
          => ~Playing(x)']_vars

\* C28 (All-or-nothing construction): in every state a controller has its
\* context and all five nodes, or none of them.
C28_AllOrNothing ==
    \A c \in Controllers :
        \/ /\ audioContext[c] = "null"
           /\ ~sourceNode[c].present
           /\ ~highPassNode[c].present
           /\ ~lowPassNode[c].present
           /\ ~gainNode[c].present
           /\ ~volumeNode[c].present
        \/ /\ audioContext[c] # "null"
           /\ sourceNode[c].present
           /\ highPassNode[c].present
           /\ lowPassNode[c].present
           /\ gainNode[c].present
           /\ volumeNode[c].present

\* C29 (Detections list freshness): once no call of detections.list() is
\* outstanding, and none has failed, every row of allDetections comes from
\* a request made for the selected date, and the rows stand in request
\* order.
C29_ListFreshness ==
    (pending = << >> /\ ~toasts) =>
        /\ \A i \in DOMAIN allDetections :
               allDetections[i][1] = selectedDate
        /\ \A i, j \in DOMAIN allDetections :
               (i < j) => (allDetections[i][2] < allDetections[j][2])

\* C30 (UI flag mirrors the element): isPlaying changes only when a play,
\* pause or ended event is delivered, to TRUE for play and FALSE otherwise;
\* once a mounted player has no event pending, isPlaying holds exactly when
\* its element is un-paused and not ended; so togglePlay with no event
\* pending pauses only an un-paused element and starts only a paused one.
C30_FlagMirrorsElement ==
    /\ [](\A c \in Controllers :
             (alive[c] /\ evq[c] = << >>)
                 => (isPlaying[c] <=> Unpaused(elem[c])))
    /\ [][\A c \in Controllers :
             (isPlaying'[c] # isPlaying[c])
                 => /\ evq[c] # << >>
                    /\ evq'[c] = Tail(evq[c])
                    /\ isPlaying'[c] = (Head(evq[c]) = "play")]_vars
    /\ [][\A c \in Controllers :
             (evq[c] = << >> /\ TogglePlay(c))
                 => IF isPlaying[c]
                    THEN Unpaused(elem[c]) /\ elem'[c] = "paused"
                    ELSE ~Unpaused(elem[c])]_vars

\* The first player was playing, was paused by the start of the second,
\* and has handled its pause event: both flags agree with the elements.
C30_Witness ==
    /\ Quiescent
    /\ alive[1] /\ alive[2]
    /\ elem[1] = "paused" /\ ~isPlaying[1] /\ elemPos[1] > 0
    /\ elem[2] = "playing" /\ isPlaying[2]
    /\ currentlyPlaying = Some(src[2])

=============================================================================
